---- MODULE Spec2Model ----
(***************************************************************************)
(* The CPU schedulers of schedulers.go: FCFSSchedule, SJFSchedule and      *)
(* SJFPrioritySchedule, run over a caller-supplied slice of Process        *)
(* records.  One action per loop iteration of each scheduler, one for the  *)
(* statements before the loop and one for the statements after it.         *)
(*                                                                         *)
(* ProcessID is a string in the source; here the id of a process is its    *)
(* position in the caller's input (1, 2, ...), and 0 is the empty string.  *)
(* totalWait, totalTurnaround and lastCompletion are float64 sums of small *)
(* integers, which float64 represents exactly; a float64 division is kept  *)
(* as its operands and its IEEE class, see FloatDiv.                       *)
(* sort.Slice is not stable (package sort: "The sort is not guaranteed to  *)
(* be stable"), so a sort yields any ordering the comparison permits.      *)
(***************************************************************************)
EXTENDS Integers, Sequences, FiniteSets, TLC

MaxLen == 2
MaxArrival == 1
MaxBurst == 2
MaxPriority == 2
MaxCalls == 2
MaxClock == 8

VARIABLES processes, alg, pc, i, serviceTime, currentTime, waitingTime,
          totalWait, totalTurnaround, lastCompletion, completed,
          schedule, gantt, w, aveWait, aveTurnaround, aveThroughput

vars == <<processes, alg, pc, i, serviceTime, currentTime, waitingTime,
          totalWait, totalTurnaround, lastCompletion, completed,
          schedule, gantt, w, aveWait, aveTurnaround, aveThroughput>>

(***************************************************************************)
(* Types                                                                   *)
(***************************************************************************)
Process(id) ==
    [ProcessID : {id}, ArrivalTime : 0..MaxArrival, BurstDuration : 0..MaxBurst,
     Priority : 1..MaxPriority, Completed : {FALSE}, Turnaround : {0},
     Waiting : {0}, Burst : {0}]

TimeSlice(pid, start, stop) == [PID |-> pid, Start |-> start, Stop |-> stop]

\* The slices a caller can pass: every length up to MaxLen, ids by position.
Inputs ==
    UNION {{s \in [1..n -> UNION {Process(id) : id \in 1..n}] :
               \A k \in 1..n : s[k].ProcessID = k} : n \in 0..MaxLen}

(***************************************************************************)
(* Helpers                                                                 *)
(***************************************************************************)
maxFirst(a, b) == a

maxSecond(a, b) == b

max(a, b) == IF a > b THEN a ELSE b

\* float64 division a / b: finite, or NaN (0/0), or +-Inf (x/0).
FloatDiv(a, b) ==
    [class |-> IF b # 0 THEN "finite" ELSE IF a = 0 THEN "NaN" ELSE "Inf",
     num |-> a, den |-> b]

NoFloat == [class |-> "unset", num |-> 0, den |-> 0]

OrderingsWithRepeats(s) == [1..Len(s) -> {s[k] : k \in DOMAIN s}]

\* All orderings of the sequence s.
Orderings(s) ==
    {[k \in 1..Len(s) |-> s[f[k]]] :
        f \in {g \in [1..Len(s) -> 1..Len(s)] :
                  \A a, b \in 1..Len(s) : a # b => g[a] # g[b]}}

\* The elements of the sequence s.
Elems(s) == {s[k] : k \in DOMAIN s}

\* sort.Slice(s, less), less being given as a Boolean function on pairs of
\* elements: an ordering of s in which no element is less than one before
\* it; elements that compare equal may come out in any order.
SortSlice(s, less) ==
    {q \in Orderings(s) :
        \A a, b \in 1..Len(q) : a < b => ~less[q[b], q[a]]}

RECURSIVE SeqSum(_)
SeqSum(s) == IF s = <<>> THEN 0 ELSE s[1] + SeqSum(Tail(s))

(***************************************************************************)
(* Initial state: the caller holds a slice and has called nothing yet.     *)
(***************************************************************************)
Init ==
    /\ processes \in Inputs
    /\ alg = "none"
    /\ pc = "idle"
    /\ i = 0
    /\ serviceTime = 0
    /\ currentTime = 0
    /\ waitingTime = 0
    /\ totalWait = 0
    /\ totalTurnaround = 0
    /\ lastCompletion = 0
    /\ completed = 0
    /\ schedule = <<>>
    /\ gantt = <<>>
    /\ w = <<>>
    /\ aveWait = NoFloat
    /\ aveTurnaround = NoFloat
    /\ aveThroughput = NoFloat

(***************************************************************************)
(* FCFSSchedule                                                            *)
(***************************************************************************)
CallFCFS ==
    /\ pc = "idle"
    /\ alg' = "FCFS"
    /\ pc' = "fcfs_loop"
    /\ i' = 1
    /\ serviceTime' = 0
    /\ totalWait' = 0
    /\ totalTurnaround' = 0
    /\ lastCompletion' = 0
    /\ waitingTime' = 0
    /\ schedule' = [k \in 1..Len(processes) |-> <<>>]
    /\ gantt' = <<>>
    /\ UNCHANGED <<processes, currentTime, completed, w, aveWait,
                   aveTurnaround, aveThroughput>>

FCFSWaitingTimeNeverRecomputed(prev, service, p) == prev

FCFSWaitingTimeUniform(prev, service, p) ==
    IF service - p.ArrivalTime > 0 THEN service - p.ArrivalTime ELSE 0

\* waitingTime after lines 44-46: recomputed only when ArrivalTime > 0.
FCFSWaitingTime(prev, service, p) ==
    IF p.ArrivalTime > 0 THEN service - p.ArrivalTime ELSE prev

FCFSIterate ==
    /\ pc = "fcfs_loop"
    /\ i <= Len(processes)
    /\ LET p == processes[i]
           wt == FCFSWaitingTime(waitingTime, serviceTime, p)
           start == wt + p.ArrivalTime
           turnaround == p.BurstDuration + wt
           completion == p.BurstDuration + p.ArrivalTime + wt
       IN  /\ waitingTime' = wt
           /\ totalWait' = totalWait + wt
           /\ totalTurnaround' = totalTurnaround + turnaround
           /\ lastCompletion' = completion
           /\ schedule' = [schedule EXCEPT ![i] =
                  <<p.ProcessID, p.Priority, p.BurstDuration, p.ArrivalTime,
                    wt, turnaround, completion>>]
           /\ serviceTime' = serviceTime + p.BurstDuration
           /\ gantt' = Append(gantt,
                  TimeSlice(p.ProcessID, start, serviceTime + p.BurstDuration))
    /\ i' = i + 1
    /\ UNCHANGED <<processes, alg, pc, currentTime, completed, w, aveWait,
                   aveTurnaround, aveThroughput>>

FCFSReport ==
    /\ pc = "fcfs_loop"
    /\ i > Len(processes)
    /\ LET count == Len(processes)
           aw == FloatDiv(totalWait, count)
           at == FloatDiv(totalTurnaround, count)
           th == FloatDiv(count, lastCompletion)
       IN  /\ aveWait' = aw
           /\ aveTurnaround' = at
           /\ aveThroughput' = th
           /\ w' = w \o <<[kind |-> "title"],
                          [kind |-> "gantt", gantt |-> gantt],
                          [kind |-> "schedule", schedule |-> schedule,
                           aveWait |-> aw, aveTurnaround |-> at,
                           aveThroughput |-> th]>>
    /\ pc' = "done"
    /\ UNCHANGED <<processes, alg, i, serviceTime, currentTime, waitingTime,
                   totalWait, totalTurnaround, lastCompletion, completed,
                   schedule, gantt>>

(***************************************************************************)
(* SJFSchedule                                                             *)
(***************************************************************************)
BurstGreater(p, q) == p.BurstDuration > q.BurstDuration

\* The less function of line 88.
BurstLess(p, q) == p.BurstDuration < q.BurstDuration

CallSJF ==
    /\ pc = "idle"
    /\ alg' = "SJF"
    /\ processes' \in SortSlice(processes, [p, q \in Elems(processes) |-> BurstLess(p, q)])
    /\ currentTime' = 0
    /\ totalWait' = 0
    /\ totalTurnaround' = 0
    /\ gantt' = [k \in 1..Len(processes) |-> TimeSlice(0, 0, 0)]
    /\ schedule' = [k \in 1..Len(processes) |-> <<>>]
    /\ i' = 1
    /\ pc' = "sjf_loop"
    /\ UNCHANGED <<serviceTime, waitingTime, lastCompletion, completed, w,
                   aveWait, aveTurnaround, aveThroughput>>

SJFIterate ==
    /\ pc = "sjf_loop"
    /\ i <= Len(processes)
    /\ LET process == processes[i]
           waitTime == max(0, currentTime - process.ArrivalTime)
           now == max(currentTime, process.ArrivalTime) + process.BurstDuration
           turnaroundTime == now - process.ArrivalTime
       IN  /\ currentTime' = now
           /\ totalWait' = totalWait + waitTime
           /\ totalTurnaround' = totalTurnaround + turnaroundTime
           /\ schedule' = [schedule EXCEPT ![i] =
                  <<process.ProcessID, process.Priority, process.BurstDuration,
                    process.ArrivalTime, waitTime, turnaroundTime, now>>]
           /\ gantt' = [gantt EXCEPT ![i] =
                  TimeSlice(process.ProcessID, now - process.BurstDuration, now)]
    /\ i' = i + 1
    /\ UNCHANGED <<processes, alg, pc, serviceTime, waitingTime,
                   lastCompletion, completed, w, aveWait, aveTurnaround,
                   aveThroughput>>

SJFReport ==
    /\ pc = "sjf_loop"
    /\ i > Len(processes)
    /\ LET aw == FloatDiv(totalWait, Len(processes))
           at == FloatDiv(totalTurnaround, Len(processes))
           th == FloatDiv(Len(processes), currentTime)
       IN  /\ aveWait' = aw
           /\ aveTurnaround' = at
           /\ aveThroughput' = th
           /\ w' = w \o <<[kind |-> "title"],
                          [kind |-> "gantt", gantt |-> gantt],
                          [kind |-> "schedule", schedule |-> schedule,
                           aveWait |-> aw, aveTurnaround |-> at,
                           aveThroughput |-> th]>>
    /\ pc' = "done"
    /\ UNCHANGED <<processes, alg, i, serviceTime, currentTime, waitingTime,
                   totalWait, totalTurnaround, lastCompletion, completed,
                   schedule, gantt>>

(***************************************************************************)
(* SJFPrioritySchedule                                                     *)
(***************************************************************************)
\* The less function of line 153.
ArrivalLess(p, q) == p.ArrivalTime < q.ArrivalTime

CallSJFPriority ==
    /\ pc = "idle"
    /\ alg' = "SJFPriority"
    /\ w' = Append(w, [kind |-> "title"])
    /\ currentTime' = 0
    /\ totalWait' = 0
    /\ totalTurnaround' = 0
    /\ completed' = 0
    /\ processes' \in SortSlice(processes, [p, q \in Elems(processes) |-> ArrivalLess(p, q)])
    /\ pc' = "psjf_loop"
    /\ UNCHANGED <<i, serviceTime, waitingTime, lastCompletion, schedule,
                   gantt, aveWait, aveTurnaround, aveThroughput>>

RECURSIVE AvailableFrom(_, _, _)
AvailableFrom(procs, now, k) ==
    IF k > Len(procs) THEN <<>>
    ELSE IF ~procs[k].Completed /\ procs[k].ArrivalTime <= now
         THEN <<k>> \o AvailableFrom(procs, now, k + 1)
         ELSE AvailableFrom(procs, now, k + 1)

AvailableIgnoringCompleted(procs, now) ==
    SelectSeq([k \in 1..Len(procs) |-> k],
              LAMBDA k : procs[k].ArrivalTime <= now)

AvailableStrictlyBefore(procs, now) ==
    SelectSeq([k \in 1..Len(procs) |-> k],
              LAMBDA k : ~procs[k].Completed /\ procs[k].ArrivalTime < now)

\* Lines 158-163: the indices of the processes that have arrived by now and
\* are not completed, in slice order.
Available(procs, now) == AvailableFrom(procs, now, 1)

PriorityFirstLess(p, q) ==
    IF p.Priority = q.Priority
    THEN p.BurstDuration < q.BurstDuration
    ELSE p.Priority < q.Priority

\* The less function of lines 166-171, on the processes the indices name.
AvailableLess(p, q) ==
    IF p.BurstDuration = q.BurstDuration
    THEN p.Priority < q.Priority
    ELSE p.BurstDuration < q.BurstDuration

\* Lines 166-171: the orderings the sort of `available` can leave.
SortAvailable(procs, available) ==
    SortSlice(available,
              [a, b \in Elems(available) |-> AvailableLess(procs[a], procs[b])])

SJFPriorityIdle ==
    /\ pc = "psjf_loop"
    /\ completed < Len(processes)
    /\ Len(Available(processes, currentTime)) = 0
    /\ currentTime' = currentTime + 1
    /\ UNCHANGED <<processes, alg, pc, i, serviceTime, waitingTime, totalWait,
                   totalTurnaround, lastCompletion, completed, schedule,
                   gantt, w, aveWait, aveTurnaround, aveThroughput>>

SJFPriorityDispatch ==
    /\ pc = "psjf_loop"
    /\ completed < Len(processes)
    /\ Len(Available(processes, currentTime)) # 0
    /\ \E available \in SortAvailable(processes, Available(processes, currentTime)) :
         LET idx == available[1]
             p == processes[idx]
             waitTime == currentTime - p.ArrivalTime
             turnaroundTime == waitTime + p.BurstDuration
         IN  /\ totalWait' = totalWait + waitTime
             /\ totalTurnaround' = totalTurnaround + turnaroundTime
             /\ processes' = [processes EXCEPT ![idx].Completed = TRUE]
             /\ completed' = completed + 1
             /\ currentTime' = currentTime + p.BurstDuration
             /\ w' = Append(w, [kind |-> "process", pid |-> p.ProcessID,
                                at |-> currentTime + p.BurstDuration,
                                wait |-> waitTime,
                                turnaround |-> turnaroundTime])
    /\ UNCHANGED <<alg, pc, i, serviceTime, waitingTime, lastCompletion,
                   schedule, gantt, aveWait, aveTurnaround, aveThroughput>>

SJFPriorityReport ==
    /\ pc = "psjf_loop"
    /\ completed >= Len(processes)
    /\ LET aw == FloatDiv(totalWait, Len(processes))
           at == FloatDiv(totalTurnaround, Len(processes))
           th == FloatDiv(Len(processes), currentTime)
       IN  /\ aveWait' = aw
           /\ aveTurnaround' = at
           /\ aveThroughput' = th
           /\ w' = w \o <<[kind |-> "avgwait", value |-> aw],
                          [kind |-> "avgturnaround", value |-> at],
                          [kind |-> "throughput", value |-> th]>>
    /\ pc' = "done"
    /\ UNCHANGED <<processes, alg, i, serviceTime, currentTime, waitingTime,
                   totalWait, totalTurnaround, lastCompletion, completed,
                   schedule, gantt>>

(***************************************************************************)
(* RRSchedule: the body of the function is empty, so a call returns at     *)
(* once, having read and written nothing.                                  *)
(***************************************************************************)
RRSchedule ==
    /\ pc = "idle"
    /\ alg' = "RR"
    /\ pc' = "done"
    /\ UNCHANGED <<processes, i, serviceTime, currentTime, waitingTime,
                   totalWait, totalTurnaround, lastCompletion, completed,
                   schedule, gantt, w, aveWait, aveTurnaround, aveThroughput>>

\* The calls of RRSchedule alone.
RRSpec == Init /\ [][RRSchedule]_vars

Next ==
    \/ CallFCFS
    \/ FCFSIterate
    \/ FCFSReport
    \/ CallSJF
    \/ SJFIterate
    \/ SJFReport
    \/ CallSJFPriority
    \/ SJFPriorityIdle
    \/ SJFPriorityDispatch
    \/ SJFPriorityReport

Spec == Init /\ [][Next]_vars

\* The runs of SJFPrioritySchedule alone.  The scheduler is straight-line,
\* single-threaded code: whenever it has a next step it takes it.
SJFPriorityNext ==
    \/ CallSJFPriority
    \/ SJFPriorityIdle
    \/ SJFPriorityDispatch
    \/ SJFPriorityReport

\* The caller passes a non-empty slice of positive bursts.
ValidInit ==
    /\ Init
    /\ Len(processes) > 0
    /\ \A k \in DOMAIN processes : processes[k].BurstDuration > 0

SJFPrioritySpec ==
    ValidInit /\ [][SJFPriorityNext]_vars /\ WF_vars(SJFPriorityNext)

(***************************************************************************)
(* Repeated calls on the same slice: a call returns and the caller, who    *)
(* still holds the slice as the call left it, calls again.  The number of  *)
(* calls and the clock of a run are bounded.                               *)
(***************************************************************************)
\* The number of calls that have written to w: one title line each.
Calls == Cardinality({l \in DOMAIN w : w[l].kind = "title"})

Return ==
    /\ pc = "done"
    /\ Calls < MaxCalls
    /\ pc' = "idle"
    /\ UNCHANGED <<processes, alg, i, serviceTime, currentTime, waitingTime,
                   totalWait, totalTurnaround, lastCompletion, completed,
                   schedule, gantt, w, aveWait, aveTurnaround, aveThroughput>>

RerunNext ==
    \/ CallSJFPriority
    \/ (currentTime < MaxClock /\ SJFPriorityIdle)
    \/ SJFPriorityDispatch
    \/ SJFPriorityReport
    \/ Return

RerunSpec == Init /\ [][RerunNext]_vars /\ WF_vars(RerunNext)

\* SJFSchedule, and then SJFPrioritySchedule on the slice SJFSchedule left.
CompareNext ==
    \/ (alg = "none" /\ CallSJF)
    \/ SJFIterate
    \/ SJFReport
    \/ (alg = "SJF" /\ Return)
    \/ (alg = "SJF" /\ CallSJFPriority)
    \/ SJFPriorityIdle
    \/ SJFPriorityDispatch
    \/ SJFPriorityReport

CompareSpec == Init /\ [][CompareNext]_vars

(***************************************************************************)
(* Vocabulary of the properties                                            *)
(***************************************************************************)
\* A non-empty, valid process set: positive bursts, non-negative arrivals.
Valid ==
    /\ Len(processes) > 0
    /\ \A k \in DOMAIN processes :
          processes[k].BurstDuration > 0 /\ processes[k].ArrivalTime >= 0

\* The descriptor with the given id (ids are unique within a slice).
ProcOf(pid) == processes[CHOOSE k \in DOMAIN processes : processes[k].ProcessID = pid]

\* Positions in w of the "Process ... completed" lines of SJFPrioritySchedule.
ProcessLines == {k \in DOMAIN w : w[k].kind = "process"}

\* Positions of schedule whose row has been filled in.
Rows == {k \in DOMAIN schedule : schedule[k] # <<>>}

SumBurst == SeqSum([k \in DOMAIN processes |-> processes[k].BurstDuration])

\* Lexicographic (BurstDuration, Priority) order.
BurstThenPriorityLeq(p, q) ==
    \/ p.BurstDuration < q.BurstDuration
    \/ p.BurstDuration = q.BurstDuration /\ p.Priority <= q.Priority

(***************************************************************************)
(* C1: every dispatch of SJFPrioritySchedule selects a process of minimum  *)
(* BurstDuration among the not-completed processes that have arrived by    *)
(* currentTime, and of minimum Priority among those of that burst.         *)
(***************************************************************************)
C1_DispatchSelectsMinimum ==
    [][\A k \in DOMAIN processes :
          (pc = "psjf_loop" /\ ~processes[k].Completed /\ processes'[k].Completed)
          => \A j \in DOMAIN processes :
                (~processes[j].Completed /\ processes[j].ArrivalTime <= currentTime)
                => BurstThenPriorityLeq(processes[k], processes[j])]_vars

\* A dispatch chose between two ready processes by burst, against their
\* priorities and against their order in the input.
C1_Witness ==
    /\ alg = "SJFPriority"
    /\ \E a, b \in ProcessLines :
          /\ w[a].pid > w[b].pid
          /\ a < b
          /\ ProcOf(w[b].pid).ArrivalTime <= w[a].at - ProcOf(w[a].pid).BurstDuration
          /\ ProcOf(w[a].pid).BurstDuration < ProcOf(w[b].pid).BurstDuration
          /\ ProcOf(w[a].pid).Priority > ProcOf(w[b].pid).Priority

(***************************************************************************)
(* C2: on a valid, non-empty slice whose Completed flags start false the   *)
(* loop of SJFPrioritySchedule terminates, and then every process has been *)
(* dispatched exactly once, is Completed, and completed equals the number  *)
(* of processes.                                                           *)
(***************************************************************************)
C2_TerminatesAllDispatchedOnce ==
    /\ (alg = "SJFPriority" /\ Valid) ~> (pc = "done")
    /\ [](alg = "SJFPriority" /\ Valid /\ pc = "done"
          => /\ completed = Len(processes)
             /\ \A k \in DOMAIN processes :
                   /\ processes[k].Completed
                   /\ Cardinality({l \in ProcessLines :
                          w[l].pid = processes[k].ProcessID}) = 1)

\* A finished run over several processes that had to idle before a dispatch.
C2_Witness ==
    /\ alg = "SJFPriority"
    /\ Valid
    /\ pc = "done"
    /\ Len(processes) >= 2
    /\ currentTime > SumBurst

(***************************************************************************)
(* C3: on a valid, non-empty slice every reported turnaround equals the    *)
(* reported waiting time plus the burst, for the three schedulers, and at  *)
(* the end totalTurnaround = totalWait + the sum of all bursts.            *)
(***************************************************************************)
C3_TurnaroundIsWaitPlusBurst ==
    Valid =>
       /\ \A k \in Rows : schedule[k][6] = schedule[k][5] + schedule[k][3]
       /\ \A l \in ProcessLines :
             w[l].turnaround = w[l].wait + ProcOf(w[l].pid).BurstDuration
       /\ pc = "done" => totalTurnaround = totalWait + SumBurst

\* A finished SJF run in which one process waited and the CPU also idled.
C3_Witness ==
    /\ alg = "SJF"
    /\ Valid
    /\ pc = "done"
    /\ totalWait > 0
    /\ currentTime > SumBurst

(***************************************************************************)
(* C4: on a valid, non-empty slice FCFSSchedule emits exactly one segment  *)
(* per process, each with Stop - Start equal to the burst of its process,  *)
(* and no two segments overlap.                                            *)
(***************************************************************************)
Overlap(s, t) == s.Start < t.Stop /\ t.Start < s.Stop

C4_FCFSSegmentsPartitionTime ==
    (alg = "FCFS" /\ Valid /\ pc = "done") =>
       /\ Len(gantt) = Len(processes)
       /\ \A k \in DOMAIN processes :
             Cardinality({g \in DOMAIN gantt :
                 gantt[g].PID = processes[k].ProcessID}) = 1
       /\ \A g \in DOMAIN gantt :
             gantt[g].Stop - gantt[g].Start = ProcOf(gantt[g].PID).BurstDuration
       /\ \A g, h \in DOMAIN gantt : g # h => ~Overlap(gantt[g], gantt[h])

(***************************************************************************)
(* C5: on a valid slice no segment emitted by FCFSSchedule or SJFSchedule  *)
(* starts before the arrival of its process.                               *)
(***************************************************************************)
C5_NoStartBeforeArrival ==
    (alg \in {"FCFS", "SJF"} /\ Valid /\ pc = "done") =>
       \A g \in DOMAIN gantt : gantt[g].Start >= ProcOf(gantt[g].PID).ArrivalTime

(***************************************************************************)
(* C6: FCFSSchedule reports, for every process with ArrivalTime > 0, the   *)
(* waiting time max(0, serviceTime - ArrivalTime), serviceTime being the   *)
(* sum of the bursts of the processes before it; it is never negative.     *)
(***************************************************************************)
BurstsBefore(k) == SeqSum([j \in 1..(k - 1) |-> processes[j].BurstDuration])

C6_FCFSWaitIsClamped ==
    (alg = "FCFS" /\ Valid) =>
       \A k \in Rows :
          processes[k].ArrivalTime > 0 =>
             /\ schedule[k][5] = max(0, BurstsBefore(k) - processes[k].ArrivalTime)
             /\ schedule[k][5] >= 0

(***************************************************************************)
(* C7: on a valid, non-empty slice the divisor of the throughput is        *)
(* strictly positive and is the time at which the last-finishing process   *)
(* completes, for the three schedulers.                                    *)
(***************************************************************************)
Completions ==
    {schedule[k][7] : k \in Rows} \cup {w[l].at : l \in ProcessLines}

C7_ThroughputDivisorIsLastCompletion ==
    (Valid /\ pc = "done") =>
       /\ aveThroughput.den > 0
       /\ aveThroughput.den \in Completions
       /\ \A c \in Completions : c <= aveThroughput.den

(***************************************************************************)
(* C8: SJFSchedule runs the processes in non-decreasing BurstDuration      *)
(* order, and processes of equal BurstDuration in their input order.       *)
(***************************************************************************)
C8_SJFOrderIsStableByBurst ==
    (alg = "SJF" /\ Valid /\ pc = "done") =>
       \A g, h \in DOMAIN gantt :
          g < h =>
             \/ ProcOf(gantt[g].PID).BurstDuration < ProcOf(gantt[h].PID).BurstDuration
             \/ /\ ProcOf(gantt[g].PID).BurstDuration = ProcOf(gantt[h].PID).BurstDuration
                /\ gantt[g].PID < gantt[h].PID

(***************************************************************************)
(* C9: called with an empty slice a scheduler refuses to run or returns a  *)
(* zero-valued report; it never computes an average or the throughput      *)
(* with a divisor of zero.                                                 *)
(***************************************************************************)
ZeroOrUnset(f) == f.class = "unset" \/ (f.class = "finite" /\ f.num = 0)

C9_EmptyInputIsGuarded ==
    Len(processes) = 0 =>
       ZeroOrUnset(aveWait) /\ ZeroOrUnset(aveTurnaround) /\ ZeroOrUnset(aveThroughput)

(***************************************************************************)
(* C10: a slice containing a process with BurstDuration <= 0 is rejected   *)
(* before scheduling: nothing is dispatched, no segment or row is emitted  *)
(* and no report, not even a partial one, is written.                      *)
(***************************************************************************)
C10_NonPositiveBurstIsRejected ==
    (\E k \in DOMAIN processes : processes[k].BurstDuration <= 0) =>
       /\ ProcessLines = {}
       /\ completed = 0
       /\ Rows = {}
       /\ \A g \in DOMAIN gantt : gantt[g] = TimeSlice(0, 0, 0)
       /\ pc # "done"

(***************************************************************************)
(* C11: after a scheduler has finished a run over a valid slice, every     *)
(* descriptor of the caller's slice has Completed = TRUE and its Waiting   *)
(* and Turnaround fields hold the times computed for it in that run, with  *)
(* Turnaround = Waiting + BurstDuration.                                   *)
(***************************************************************************)
\* The waiting and turnaround times the run reported for the process pid.
ReportedWait(pid) ==
    IF alg = "SJFPriority"
    THEN w[CHOOSE l \in ProcessLines : w[l].pid = pid].wait
    ELSE schedule[CHOOSE k \in Rows : schedule[k][1] = pid][5]

ReportedTurnaround(pid) ==
    IF alg = "SJFPriority"
    THEN w[CHOOSE l \in ProcessLines : w[l].pid = pid].turnaround
    ELSE schedule[CHOOSE k \in Rows : schedule[k][1] = pid][6]

C11_DescriptorsHoldResults ==
    (Valid /\ pc = "done" /\ alg \in {"FCFS", "SJF", "SJFPriority"}) =>
       \A k \in DOMAIN processes :
          /\ processes[k].Completed
          /\ processes[k].Waiting = ReportedWait(processes[k].ProcessID)
          /\ processes[k].Turnaround = ReportedTurnaround(processes[k].ProcessID)
          /\ processes[k].Turnaround = processes[k].Waiting + processes[k].BurstDuration

(***************************************************************************)
(* C12: no step of a scheduler changes the ProcessID, ArrivalTime,         *)
(* BurstDuration or Priority of a descriptor: a step of FCFSSchedule       *)
(* leaves the slice as it is, and a step of SJFSchedule or                 *)
(* SJFPrioritySchedule leaves a permutation of the descriptors in which    *)
(* at most Completed, Waiting and Turnaround differ.                       *)
(***************************************************************************)
\* The fields of a descriptor that no scheduler may change.
Identity(p) == <<p.ProcessID, p.ArrivalTime, p.BurstDuration, p.Priority, p.Burst>>

C12_DescriptorsOnlyPermuted ==
    [][/\ alg' = "FCFS" => processes' = processes
       /\ Len(processes') = Len(processes)
       /\ \E f \in [DOMAIN processes -> DOMAIN processes] :
             /\ \A a, b \in DOMAIN processes : a # b => f[a] # f[b]
             /\ \A k \in DOMAIN processes :
                   Identity(processes'[f[k]]) = Identity(processes[k])]_vars

\* A finished run that reordered the caller's slice, and one that set a
\* Completed flag.
C12_Witness ==
    /\ pc = "done"
    /\ Len(processes) >= 2
    /\ processes[1].ProcessID # 1
    /\ alg = "SJFPriority"
    /\ processes[1].Completed

(***************************************************************************)
(* C13: RRSchedule runs every process to completion: the timeline segments *)
(* it emits give every process a total of (Stop - Start) equal to its      *)
(* BurstDuration.                                                          *)
(***************************************************************************)
\* The segments written to w by the run, in order (none if no chart was).
EmittedSegments ==
    IF \E l \in DOMAIN w : w[l].kind = "gantt"
    THEN w[CHOOSE l \in DOMAIN w : w[l].kind = "gantt"].gantt
    ELSE <<>>

ExecutedTime(pid) ==
    SeqSum([g \in DOMAIN EmittedSegments |->
               IF EmittedSegments[g].PID = pid
               THEN EmittedSegments[g].Stop - EmittedSegments[g].Start
               ELSE 0])

C13_RRRunsEveryProcessToCompletion ==
    (alg = "RR" /\ Valid /\ pc = "done") =>
       \A k \in DOMAIN processes :
          ExecutedTime(processes[k].ProcessID) = processes[k].BurstDuration

(***************************************************************************)
(* C14: when the first input process has ArrivalTime 0 and every later     *)
(* process k has 0 < ArrivalTime <= the sum of the bursts before it,       *)
(* FCFSSchedule produces the reference schedule: segment k belongs to      *)
(* input process k, starts at the sum of the preceding bursts, stops at    *)
(* that sum plus its own burst, and its reported waiting time is the sum   *)
(* of the preceding bursts minus its ArrivalTime.                          *)
(***************************************************************************)
FCFSReferenceInput ==
    /\ Len(processes) > 0
    /\ processes[1].ArrivalTime = 0
    /\ \A k \in 2..Len(processes) :
          /\ 0 < processes[k].ArrivalTime
          /\ processes[k].ArrivalTime <= BurstsBefore(k)

C14_FCFSReferenceSchedule ==
    (alg = "FCFS" /\ FCFSReferenceInput) =>
       /\ pc = "done" => Len(gantt) = Len(processes) /\ Rows = DOMAIN processes
       /\ \A k \in Rows :
             /\ k \in DOMAIN gantt
             /\ gantt[k].PID = processes[k].ProcessID
             /\ schedule[k][1] = processes[k].ProcessID
             /\ gantt[k].Start = BurstsBefore(k)
             /\ gantt[k].Stop = BurstsBefore(k) + processes[k].BurstDuration
             /\ schedule[k][5] = BurstsBefore(k) - processes[k].ArrivalTime

\* A finished reference run in which a later process had to wait.
C14_Witness ==
    /\ alg = "FCFS"
    /\ FCFSReferenceInput
    /\ pc = "done"
    /\ Len(processes) >= 2
    /\ schedule[2][5] > 0

(***************************************************************************)
(* C15: on a valid slice the segments of SJFSchedule, in emitted order,    *)
(* have non-decreasing Start and do not overlap, each has Stop - Start =   *)
(* BurstDuration, the reported waiting time is Start - ArrivalTime >= 0,   *)
(* and a process that arrives after the CPU became free starts at its      *)
(* ArrivalTime, not earlier.                                               *)
(***************************************************************************)
\* When the CPU became free before the k-th run of the sorted slice.
FreeAt(k) == IF k = 1 THEN 0 ELSE gantt[k - 1].Stop

C15_SJFSegmentsSequential ==
    (alg = "SJF" /\ Valid) =>
       \A k \in Rows :
          /\ gantt[k].PID = processes[k].ProcessID
          /\ gantt[k].Start >= FreeAt(k)
          /\ k > 1 => gantt[k].Start >= gantt[k - 1].Start
          /\ \A j \in Rows : j # k => ~Overlap(gantt[j], gantt[k])
          /\ gantt[k].Stop - gantt[k].Start = processes[k].BurstDuration
          /\ schedule[k][5] = gantt[k].Start - processes[k].ArrivalTime
          /\ schedule[k][5] >= 0
          /\ processes[k].ArrivalTime > FreeAt(k)
                => gantt[k].Start = processes[k].ArrivalTime

\* A finished SJF run whose first process arrived after time 0, so that the
\* clock jumped, and whose second process then had to wait.
C15_Witness ==
    /\ alg = "SJF"
    /\ Valid
    /\ pc = "done"
    /\ Len(processes) >= 2
    /\ gantt[1].Start = processes[1].ArrivalTime
    /\ gantt[1].Start > 0
    /\ schedule[2][5] > 0

(***************************************************************************)
(* C16: an iteration of the loop of SJFPrioritySchedule is an idle tick    *)
(* (currentTime advanced by exactly 1, no process marked completed, no     *)
(* total changed) if and only if no not-completed process has ArrivalTime  *)
(* <= currentTime; so the CPU never idles while a not-completed process    *)
(* has arrived, and every reported wait is >= 0.                           *)
(***************************************************************************)
IdleTick ==
    /\ currentTime' = currentTime + 1
    /\ completed' = completed
    /\ processes' = processes
    /\ totalWait' = totalWait
    /\ totalTurnaround' = totalTurnaround
    /\ w' = w

NoneReady ==
    \A k \in DOMAIN processes :
       processes[k].Completed \/ processes[k].ArrivalTime > currentTime

C16_IdleIffNoneReady ==
    [][/\ (pc = "psjf_loop" /\ pc' = "psjf_loop") => (IdleTick <=> NoneReady)
       /\ \A l \in ProcessLines :
             /\ w[l].wait >= 0
             /\ w[l].at - ProcOf(w[l].pid).BurstDuration >= ProcOf(w[l].pid).ArrivalTime]_vars

\* A run that idled while nothing had arrived and then dispatched a process
\* the moment it arrived.
C16_Witness ==
    /\ alg = "SJFPriority"
    /\ Valid
    /\ \E l \in ProcessLines :
          /\ w[l].wait = 0
          /\ ProcOf(w[l].pid).ArrivalTime > 0
          /\ w[l].at - ProcOf(w[l].pid).BurstDuration = ProcOf(w[l].pid).ArrivalTime

(***************************************************************************)
(* C17: FCFSSchedule reports a process with ArrivalTime 0 that is not the  *)
(* first of the input with exactly the waiting time of the process before  *)
(* it, and a first process with ArrivalTime 0 with waiting time 0; the     *)
(* waiting time is not recomputed from serviceTime.                        *)
(***************************************************************************)
C17_FCFSCarriesWaitOver ==
    alg = "FCFS" =>
       \A k \in Rows :
          processes[k].ArrivalTime = 0 =>
             schedule[k][5] = IF k = 1 THEN 0 ELSE schedule[k - 1][5]

\* A later process with ArrivalTime 0 whose reported wait is the one carried
\* over, which differs from serviceTime - ArrivalTime.
C17_Witness ==
    /\ alg = "FCFS"
    /\ Valid
    /\ \E k \in Rows :
          /\ k > 1
          /\ processes[k].ArrivalTime = 0
          /\ schedule[k][5] = schedule[k - 1][5]
          /\ schedule[k][5] # BurstsBefore(k)

(***************************************************************************)
(* C18: SJFSchedule is not work-conserving.  Whenever the process it runs  *)
(* next has not arrived when the CPU becomes free, the CPU stays idle      *)
(* until that process's ArrivalTime, also when a longer process that is    *)
(* run later has already arrived; and there are valid inputs on which      *)
(* this happens (the witness).                                             *)
(***************************************************************************)
C18_SJFIdlesForShorterJob ==
    (alg = "SJF" /\ Valid) =>
       \A k, m \in Rows :
          (/\ k < m
           /\ processes[k].ArrivalTime > FreeAt(k)
           /\ processes[m].ArrivalTime <= FreeAt(k))
          => /\ processes[k].BurstDuration <= processes[m].BurstDuration
             /\ gantt[k].Start = processes[k].ArrivalTime
             /\ gantt[m].Start >= gantt[k].Stop
             /\ schedule[m][5] >= gantt[k].Stop - FreeAt(k)

\* A shorter job that arrives at a later time is run first, the CPU idling
\* until it arrives, while a longer job that was present from time 0 waits.
C18_Witness ==
    /\ alg = "SJF"
    /\ Valid
    /\ pc = "done"
    /\ \E k, m \in Rows :
          /\ k < m
          /\ processes[k].BurstDuration < processes[m].BurstDuration
          /\ processes[k].ArrivalTime > FreeAt(k)
          /\ processes[m].ArrivalTime <= FreeAt(k)
          /\ gantt[k].Start > FreeAt(k)
          /\ schedule[m][5] > 0

(***************************************************************************)
(* C19: SJFPrioritySchedule terminates on every non-empty slice with       *)
(* positive bursts whatever the Completed flags are when it is called, in  *)
(* particular when it is called again on a slice it has processed.  The    *)
(* loop ends only when completed reaches the number of processes, and      *)
(* completed grows only by dispatching a not-completed process, so a run   *)
(* that terminates is never in the loop with completed below the number    *)
(* of processes and every process already Completed.                       *)
(***************************************************************************)
C19_LoopCanStillFinish ==
    (Valid /\ pc = "psjf_loop" /\ completed < Len(processes)) =>
       \E k \in DOMAIN processes : ~processes[k].Completed

(***************************************************************************)
(* C20: on a valid, non-empty slice whose ArrivalTime are all 0,           *)
(* SJFSchedule and SJFPrioritySchedule agree: same total waiting time,     *)
(* same total turnaround time, same final clock, hence the same averages   *)
(* and throughput; and when the bursts are pairwise distinct they run the  *)
(* processes in the same order with the same waiting times.                *)
(***************************************************************************)
\* The last report SJFSchedule wrote to w.
SJFReports == {l \in DOMAIN w : w[l].kind = "schedule"}

SJFOutput == w[CHOOSE l \in SJFReports : \A m \in SJFReports : m <= l]

\* The positions of the lines of the SJFPrioritySchedule run, in order.
RECURSIVE SortedSeq(_)
SortedSeq(S) ==
    IF S = {} THEN <<>>
    ELSE LET least == CHOOSE x \in S : \A y \in S : x <= y
         IN  <<least>> \o SortedSeq(S \ {least})

AllArriveAtZero == \A k \in DOMAIN processes : processes[k].ArrivalTime = 0

DistinctBursts ==
    \A j, k \in DOMAIN processes :
       j # k => processes[j].BurstDuration # processes[k].BurstDuration

\* Both schedulers have run on the slice, SJFPrioritySchedule last.
BothRan == alg = "SJFPriority" /\ pc = "done" /\ SJFReports # {}

C20_SJFAndPrioritySJFAgree ==
    (BothRan /\ Valid /\ AllArriveAtZero) =>
       /\ SJFOutput.aveWait.num = totalWait
       /\ SJFOutput.aveTurnaround.num = totalTurnaround
       /\ SJFOutput.aveThroughput.den = currentTime
       /\ SJFOutput.aveWait = aveWait
       /\ SJFOutput.aveTurnaround = aveTurnaround
       /\ SJFOutput.aveThroughput = aveThroughput
       /\ DistinctBursts =>
             LET lines == SortedSeq(ProcessLines)
             IN  /\ Len(lines) = Len(SJFOutput.schedule)
                 /\ \A n \in DOMAIN lines :
                       /\ w[lines[n]].pid = SJFOutput.schedule[n][1]
                       /\ w[lines[n]].wait = SJFOutput.schedule[n][5]
                       /\ w[lines[n]].turnaround = SJFOutput.schedule[n][6]

\* Both have run on several processes of distinct bursts, all arriving at 0,
\* and some process waited.
C20_Witness ==
    /\ BothRan
    /\ Valid
    /\ AllArriveAtZero
    /\ DistinctBursts
    /\ Len(processes) >= 2
    /\ totalWait > 0

====
